---- MODULE Spec2Model ----
(***************************************************************************)
(* Model of src/src/KMerTransformers.py: the three scikit-learn style      *)
(* transformers KMerTransformer (exact k-mers), KGroupKMerTransformer      *)
(* (k-mers grouped by base composition) and KGroupColumnPruner.            *)
(*                                                                         *)
(* A Python str is a sequence of one-character strings, a dict is a        *)
(* function whose DOMAIN is its key set, a raised exception is the name of *)
(* its class in the variable raised.  verbose only prints and is left out. *)
(***************************************************************************)
EXTENDS Integers, Sequences, FiniteSets, TLC

VARIABLES
    cls,              \* which class the instance is: "KMer", "KGroup", "Pruner"
    k,                \* self.k
    normalize,        \* self.normalize
    fitted,           \* hasattr(self, 'kmer_perms') / hasattr(self, 'columns_to_keep')
    kmer_perms,       \* self.kmer_perms (<<>> while the attribute is not set)
    columns_to_keep,  \* self.columns_to_keep (<<>> while the attribute is not set)
    X,                \* the table the caller passes to fit / transform
    last,             \* the method called last: "init", "fit", "transform", "fit_transform"
    raised,           \* the exception the last call raised, "none" if it returned
    X_trans           \* the table the last call returned (<<>> if it returned none)

vars == <<cls, k, normalize, fitted, kmer_perms, columns_to_keep, X, last, raised, X_trans>>

----------------------------------------------------------------------------
(* Bounds of the model *)

MaxK == 2
NegK == 1
MaxLen == 4

KValues == (0 - NegK)..MaxK

----------------------------------------------------------------------------
(* Python primitives used by the source *)

Alphabet == {"A", "C", "G", "T"}
Chars == Alphabet \cup {"N"}

\* ord(c): str comparison in sorted() goes by code point
Ord(c) == CASE c = "A" -> 65 [] c = "C" -> 67 [] c = "G" -> 71
            [] c = "N" -> 78 [] c = "T" -> 84

\* c * n for a one-character string c: '' when n <= 0
Repeat(c, n) == [i \in 1..n |-> c]

\* range(n) as the number of iterations
RangeLen(n) == IF n > 0 THEN n ELSE 0

\* seq[i+1:j+1]: the window taken one position late
SliceShifted(s, i, j) ==
    LET lo == IF i + 1 > Len(s) THEN Len(s) ELSE i + 1
        hi == IF j + 1 > Len(s) THEN Len(s) ELSE j + 1
    IN  IF lo >= hi THEN <<>> ELSE SubSeq(s, lo + 1, hi)

\* seq[i:j] with Python's clamping and its meaning of a negative index
SliceIndex(s, i) ==
    IF i < 0 THEN (IF i + Len(s) < 0 THEN 0 ELSE i + Len(s))
             ELSE (IF i > Len(s) THEN Len(s) ELSE i)

Slice(s, i, j) ==
    LET lo == SliceIndex(s, i)
        hi == SliceIndex(s, j)
    IN  IF lo >= hi THEN <<>> ELSE SubSeq(s, lo + 1, hi)

\* subseq.count(c)
Count(s, c) == Cardinality({i \in DOMAIN s : s[i] = c})

\* a < b on str
RECURSIVE StrLess(_, _)
StrLess(a, b) ==
    IF a = <<>> THEN b # <<>>
    ELSE IF b = <<>> THEN FALSE
    ELSE IF Ord(a[1]) # Ord(b[1]) THEN Ord(a[1]) < Ord(b[1])
    ELSE StrLess(Tail(a), Tail(b))

\* sorted(S) for a collection of distinct str
RECURSIVE Sorted(_)
Sorted(S) ==
    IF S = {} THEN <<>>
    ELSE LET m == CHOOSE x \in S : \A y \in S : x = y \/ StrLess(x, y)
         IN  <<m>> \o Sorted(S \ {m})

\* set(itertools.permutations(s, r)) for r >= 0: the r-tuples of characters at
\* pairwise distinct positions of s
PermutationSet(s, r) ==
    { [i \in 1..r |-> s[f[i]]] :
        f \in {g \in [1..r -> 1..Len(s)] :
                 \A i, j \in 1..r : i # j => g[i] # g[j]} }

----------------------------------------------------------------------------
(* KMerTransformer *)

\* one copy of each base instead of k copies
superstring_once(kk) == <<"G", "A", "T", "C">>

superstring(kk) ==
    Repeat("G", kk) \o Repeat("A", kk) \o Repeat("T", kk) \o Repeat("C", kk)

\* __create_kmer_permutations: permutations() raises ValueError when r < 0
create_kmer_permutations(kk) ==
    IF kk < 0
    THEN [exc |-> "ValueError", perms |-> <<>>]
    ELSE [exc |-> "none", perms |-> Sorted(PermutationSet(superstring(kk), kk))]

\* The vocabulary depends on k alone: one evaluation per k
KmerPermsOfK == [kk \in KValues |-> create_kmer_permutations(kk)]

\* dict.fromkeys(kmer_perms, 0); a float n/L of normalized mode is <<n, L>>
Zero(norm, seq) == IF norm THEN <<0, Len(seq)>> ELSE 0

FromKeys(perms, norm, seq) ==
    [key \in {perms[i] : i \in DOMAIN perms} |-> Zero(norm, seq)]

\* kmer_freq[key] += 1/len(seq)   or   kmer_freq[key] += 1
Increment(v, norm, seq) == IF norm THEN <<v[1] + 1, Len(seq)>> ELSE v + 1

\* range(len(seq) - k + 1): the conventional window count
WindowCountInclusive(seq, kk) == RangeLen(Len(seq) - kk + 1)

\* range(len(seq) - k): the number of windows the loop visits
WindowCount(seq, kk) == RangeLen(Len(seq) - kk)

\* a key that is not in the dict is skipped in silence
AugAssignSkip(kmer_freq, key, norm, seq) ==
    IF key \notin DOMAIN kmer_freq
    THEN [exc |-> "none", kmer_freq |-> kmer_freq]
    ELSE [exc |-> "none",
          kmer_freq |-> [kmer_freq EXCEPT ![key] = Increment(@, norm, seq)]]

\* a defaultdict: a key that is not in the dict is added to it
AugAssignDefault(kmer_freq, key, norm, seq) ==
    [exc |-> "none",
     kmer_freq |-> [x \in DOMAIN kmer_freq \cup {key} |->
                      IF x = key
                      THEN Increment(IF key \in DOMAIN kmer_freq THEN kmer_freq[key]
                                     ELSE Zero(norm, seq), norm, seq)
                      ELSE kmer_freq[x]]]

\* kmer_freq[key] += ... on a plain dict: the old value is read first, and a
\* key that is not in the dict raises KeyError
AugAssign(kmer_freq, key, norm, seq) ==
    IF key \notin DOMAIN kmer_freq
    THEN [exc |-> "KeyError", kmer_freq |-> kmer_freq]
    ELSE [exc |-> "none",
          kmer_freq |-> [kmer_freq EXCEPT ![key] = Increment(@, norm, seq)]]

\* __kmer_transform_seq: the loop from iteration i on
RECURSIVE KMerTransformer_loop(_, _, _, _, _)
KMerTransformer_loop(i, seq, kk, norm, kmer_freq) ==
    IF i >= WindowCount(seq, kk)
    THEN [exc |-> "none", kmer_freq |-> kmer_freq]
    ELSE LET r == AugAssign(kmer_freq, Slice(seq, i, i + kk), norm, seq)
         IN  IF r.exc # "none" THEN r
             ELSE KMerTransformer_loop(i + 1, seq, kk, norm, r.kmer_freq)

KMerTransformer_kmer_transform_seq(seq, kk, perms, norm) ==
    KMerTransformer_loop(0, seq, kk, norm, FromKeys(perms, norm, seq))

----------------------------------------------------------------------------
(* KGroupKMerTransformer *)

\* the key in the order of the loops, (a,c,g,t)
make_key_string_loop_order(a, c, t, g) == <<a, c, g, t>>

make_key_string(a, c, t, g) == <<a, c, t, g>>

\* the loops over range(k) instead of range(k+1)
create_kgroup_kmer_permutations_short(kk) ==
    LET R == RangeLen(kk)
        quad(n) == <<(n \div (R * R * R)) % R, (n \div (R * R)) % R,
                     (n \div R) % R, n % R>>
        all == [n \in 1..(R * R * R * R) |-> quad(n - 1)]
        hit(q) == q[1] + q[2] + q[3] + q[4] = kk
        kept == SelectSeq(all, hit)
    IN  [n \in 1..Len(kept) |->
            <<kept[n][1], kept[n][2], kept[n][4], kept[n][3]>>]

\* The four nested loops over range(k+1), flattened: iteration n (from 0) has
\* a, c, g, t as the base-(k+1) digits of n
create_kgroup_kmer_permutations(kk) ==
    LET R == RangeLen(kk + 1)
        quad(n) == <<(n \div (R * R * R)) % R, (n \div (R * R)) % R,
                     (n \div R) % R, n % R>>
        all == [n \in 1..(R * R * R * R) |-> quad(n - 1)]
        hit(q) == q[1] + q[2] + q[3] + q[4] = kk
        kept == SelectSeq(all, hit)
    IN  [n \in 1..Len(kept) |->
            make_key_string(kept[n][1], kept[n][2], kept[n][4], kept[n][3])]

KgroupPermsOfK == [kk \in KValues |-> create_kgroup_kmer_permutations(kk)]

RECURSIVE KGroupKMerTransformer_loop(_, _, _, _, _)
KGroupKMerTransformer_loop(i, seq, kk, norm, kmer_freq) ==
    IF i >= WindowCount(seq, kk)
    THEN [exc |-> "none", kmer_freq |-> kmer_freq]
    ELSE LET subseq == Slice(seq, i, i + kk)
             a == Count(subseq, "A")
             c == Count(subseq, "C")
             g == Count(subseq, "G")
             t == Count(subseq, "T")
             key_string == make_key_string(a, c, t, g)
             r == AugAssign(kmer_freq, key_string, norm, seq)
         IN  IF r.exc # "none" THEN r
             ELSE KGroupKMerTransformer_loop(i + 1, seq, kk, norm, r.kmer_freq)

KGroupKMerTransformer_kmer_transform_seq(seq, kk, perms, norm) ==
    KGroupKMerTransformer_loop(0, seq, kk, norm, FromKeys(perms, norm, seq))

----------------------------------------------------------------------------
(* Tables of sequences: the 'seq' column of the caller's dataset, row by row *)

BoundedSeqs(S, n) == UNION {[1..m -> S] : m \in 0..n}

SeqInputs == BoundedSeqs(Chars, MaxLen)

\* The sequences of the documented scenarios and two with a character that is
\* no base: the rows of the two-row datasets
ScenarioSeqs ==
    { <<"A", "A", "C", "G", "T">>, <<"A", "A", "A", "A">>, <<"A", "C">>,
      <<"A", "C", "G", "T">>, <<"A", "N", "A", "C">>, <<"N", "G", "G">> }

Tables ==
    {<<>>} \cup {<<s>> : s \in SeqInputs \cup ScenarioSeqs}
           \cup {<<s, t>> : s \in ScenarioSeqs, t \in ScenarioSeqs}

\* the lambda reads self.kmer_perms: AttributeError before fit
Unfitted(seq) == [exc |-> "AttributeError", kmer_freq |-> <<>>]

\* pd.DataFrame(seqs.apply(...).tolist(), index=seqs.index) from the outcomes of
\* the calls on the rows: the rows in input order; the first row whose call
\* raises ends the whole transform with that exception
Apply(res) ==
    LET bad == {i \in DOMAIN res : res[i].exc # "none"}
    IN  IF bad # {}
        THEN [exc |-> res[CHOOSE i \in bad : \A j \in bad : i <= j].exc,
              table |-> <<>>]
        ELSE [exc |-> "none", table |-> [i \in DOMAIN res |-> res[i].kmer_freq]]

KMerTransformer_transform_table(seqs, kk, isfit, perms, norm) ==
    Apply([i \in DOMAIN seqs |->
             IF isfit THEN KMerTransformer_kmer_transform_seq(seqs[i], kk, perms, norm)
                      ELSE Unfitted(seqs[i])])

KGroupKMerTransformer_transform_table(seqs, kk, isfit, perms, norm) ==
    Apply([i \in DOMAIN seqs |->
             IF isfit THEN KGroupKMerTransformer_kmer_transform_seq(seqs[i], kk, perms, norm)
                      ELSE Unfitted(seqs[i])])

----------------------------------------------------------------------------
(* The transformers as a state machine: the caller constructs an instance   *)
(* and calls its methods on its dataset X in any order                      *)

Init ==
    /\ cls \in {"KMer", "KGroup"}
    /\ k \in KValues
    /\ normalize \in BOOLEAN
    /\ X \in Tables
    /\ fitted = FALSE
    /\ kmer_perms = <<>>
    /\ columns_to_keep = <<>>
    /\ last = "init"
    /\ raised = "none"
    /\ X_trans = <<>>

KMerTransformer_fit ==
    /\ cls = "KMer"
    /\ LET r == KmerPermsOfK[k]
       IN  /\ fitted' = (fitted \/ r.exc = "none")
           /\ kmer_perms' = IF r.exc = "none" THEN r.perms ELSE kmer_perms
           /\ raised' = r.exc
    /\ last' = "fit"
    /\ X_trans' = <<>>
    /\ UNCHANGED <<cls, k, normalize, columns_to_keep, X>>

KMerTransformer_transform ==
    /\ cls = "KMer"
    /\ LET r == KMerTransformer_transform_table(X, k, fitted, kmer_perms, normalize)
       IN  /\ raised' = r.exc
           /\ X_trans' = r.table
    /\ last' = "transform"
    /\ UNCHANGED <<cls, k, normalize, fitted, kmer_perms, columns_to_keep, X>>

KMerTransformer_fit_transform ==
    /\ cls = "KMer"
    /\ LET r == KmerPermsOfK[k]
           t == KMerTransformer_transform_table(X, k, TRUE, r.perms, normalize)
       IN  /\ fitted' = (fitted \/ r.exc = "none")
           /\ kmer_perms' = IF r.exc = "none" THEN r.perms ELSE kmer_perms
           /\ raised' = IF r.exc = "none" THEN t.exc ELSE r.exc
           /\ X_trans' = IF r.exc = "none" THEN t.table ELSE <<>>
    /\ last' = "fit_transform"
    /\ UNCHANGED <<cls, k, normalize, columns_to_keep, X>>

KGroupKMerTransformer_fit ==
    /\ cls = "KGroup"
    /\ fitted' = TRUE
    /\ kmer_perms' = KgroupPermsOfK[k]
    /\ raised' = "none"
    /\ last' = "fit"
    /\ X_trans' = <<>>
    /\ UNCHANGED <<cls, k, normalize, columns_to_keep, X>>

KGroupKMerTransformer_transform ==
    /\ cls = "KGroup"
    /\ LET r == KGroupKMerTransformer_transform_table(X, k, fitted, kmer_perms, normalize)
       IN  /\ raised' = r.exc
           /\ X_trans' = r.table
    /\ last' = "transform"
    /\ UNCHANGED <<cls, k, normalize, fitted, kmer_perms, columns_to_keep, X>>

KGroupKMerTransformer_fit_transform ==
    /\ cls = "KGroup"
    /\ LET t == KGroupKMerTransformer_transform_table(X, k, TRUE, KgroupPermsOfK[k], normalize)
       IN  /\ raised' = t.exc
           /\ X_trans' = t.table
    /\ fitted' = TRUE
    /\ kmer_perms' = KgroupPermsOfK[k]
    /\ last' = "fit_transform"
    /\ UNCHANGED <<cls, k, normalize, columns_to_keep, X>>

Next ==
    \/ KMerTransformer_fit
    \/ KMerTransformer_transform
    \/ KMerTransformer_fit_transform
    \/ KGroupKMerTransformer_fit
    \/ KGroupKMerTransformer_transform
    \/ KGroupKMerTransformer_fit_transform

Spec == Init /\ [][Next]_vars

----------------------------------------------------------------------------
(* KGroupColumnPruner.  A DataFrame is its column labels in order and its   *)
(* rows, each a function from the labels to numbers                         *)

MaxRows == 1

ColumnLists == { <<"AA", "TT">>, <<"TT", "AA">>, <<"AA">> }
CellValues == {-1, 0, 1}

ToSet(seq) == {seq[i] : i \in DOMAIN seq}

\* Two-row frames: "TT" all zero and "AA" non-zero in one row only; a column
\* that is never positive without being all zero
ScenarioFrames ==
    { [columns |-> <<"AA", "TT">>,
       rows |-> << [c \in {"AA", "TT"} |-> 0],
                   [c \in {"AA", "TT"} |-> IF c = "AA" THEN 1 ELSE 0] >>],
      [columns |-> <<"TT", "AA">>,
       rows |-> << [c \in {"AA", "TT"} |-> IF c = "AA" THEN 1 ELSE 0 - 1],
                   [c \in {"AA", "TT"} |-> IF c = "AA" THEN 0 - 1 ELSE 0] >>] }

Frames ==
    ScenarioFrames \cup
    UNION { { [columns |-> cols, rows |-> rws] :
                rws \in BoundedSeqs([ToSet(cols) -> CellValues], MaxRows) } :
            cols \in ColumnLists }

NoFrame == [columns |-> <<>>, rows |-> <<>>]

\* (X >= 0) instead of (X > 0)
NonNegativeColumns(F) ==
    LET any(c) == \E r \in DOMAIN F.rows : F.rows[r][c] >= 0
    IN  SelectSeq(F.columns, any)

\* X.loc[:, (X > 0).any(axis=0)].columns
PositiveColumns(F) ==
    LET any(c) == \E r \in DOMAIN F.rows : F.rows[r][c] > 0
    IN  SelectSeq(F.columns, any)

\* X[columns]: KeyError if a label is no column of X
Project(F, columns) ==
    IF \E i \in DOMAIN columns : columns[i] \notin ToSet(F.columns)
    THEN [exc |-> "KeyError", table |-> NoFrame]
    ELSE [exc |-> "none",
          table |-> [columns |-> columns,
                     rows |-> [r \in DOMAIN F.rows |->
                                 [c \in ToSet(columns) |-> F.rows[r][c]]]]]

\* transform that works the keep set out again from the table it is given
KGroupColumnPruner_transform_refit(F, isfit, keep) ==
    IF isfit
    THEN [exc |-> "none",
          table |-> [columns |-> SelectSeq(F.columns,
                                   LAMBDA c : \E r \in DOMAIN F.rows : F.rows[r][c] > 0),
                     rows |-> [r \in DOMAIN F.rows |->
                                 [c \in {d \in ToSet(F.columns) :
                                           \E q \in DOMAIN F.rows : F.rows[q][d] > 0}
                                    |-> F.rows[r][c]]]]]
    ELSE [exc |-> "AttributeError", table |-> [columns |-> <<>>, rows |-> <<>>]]

\* transform reads self.columns_to_keep: AttributeError before fit
KGroupColumnPruner_transform_table(F, isfit, keep) ==
    IF isfit THEN Project(F, keep)
             ELSE [exc |-> "AttributeError", table |-> NoFrame]

KGroupColumnPruner_init ==
    /\ cls = "Pruner"
    /\ k = 0
    /\ normalize = FALSE
    /\ fitted = FALSE
    /\ kmer_perms = <<>>
    /\ columns_to_keep = <<>>
    /\ X = NoFrame
    /\ last = "init"
    /\ raised = "none"
    /\ X_trans = NoFrame

KGroupColumnPruner_fit ==
    \E F \in Frames :
        /\ X' = F
        /\ columns_to_keep' = PositiveColumns(F)
        /\ fitted' = TRUE
        /\ last' = "fit"
        /\ raised' = "none"
        /\ X_trans' = NoFrame
        /\ UNCHANGED <<cls, k, normalize, kmer_perms>>

KGroupColumnPruner_transform ==
    \E F \in Frames :
        /\ X' = F
        /\ LET r == KGroupColumnPruner_transform_table(F, fitted, columns_to_keep)
           IN  /\ raised' = r.exc
               /\ X_trans' = r.table
        /\ last' = "transform"
        /\ UNCHANGED <<cls, k, normalize, fitted, kmer_perms, columns_to_keep>>

KGroupColumnPruner_fit_transform ==
    \E F \in Frames :
        /\ X' = F
        /\ columns_to_keep' = PositiveColumns(F)
        /\ fitted' = TRUE
        /\ LET r == KGroupColumnPruner_transform_table(F, TRUE, PositiveColumns(F))
           IN  /\ raised' = r.exc
               /\ X_trans' = r.table
        /\ last' = "fit_transform"
        /\ UNCHANGED <<cls, k, normalize, kmer_perms>>

PrunerNext ==
    \/ KGroupColumnPruner_fit
    \/ KGroupColumnPruner_transform
    \/ KGroupColumnPruner_fit_transform

SpecPruner == KGroupColumnPruner_init /\ [][PrunerNext]_vars

----------------------------------------------------------------------------
(* Vocabulary of the claims *)

\* transform (alone or inside fit_transform) was the last call and ran on a
\* fitted instance
Transformed == fitted /\ last \in {"transform", "fit_transform"}

OnlyBases(seq) == \A p \in DOMAIN seq : seq[p] \in Alphabet

\* the start offsets 0 .. L-k-1 the source visits
Offsets(seq, kk) == {i \in 0..(Len(seq) - kk - 1) : TRUE}

\* the window at offset i holds a character that is no base
BadWindow(seq, i, kk) == \E p \in (i + 1)..(i + kk) : seq[p] \notin Alphabet

BadCounted(seqs, kk) ==
    \E r \in DOMAIN seqs : \E i \in Offsets(seqs[r], kk) : BadWindow(seqs[r], i, kk)

RECURSIVE SumOver(_, _)
SumOver(f, S) ==
    IF S = {} THEN 0
    ELSE LET x == CHOOSE y \in S : TRUE IN f[x] + SumOver(f, S \ {x})

RowSum(row) == SumOver(row, DOMAIN row)

\* a before b in the lexicographic order of the tuples of code points
LexBefore(a, b) ==
    \E p \in 1..Len(a) :
        /\ \A q \in 1..(p - 1) : a[q] = b[q]
        /\ a[p] < b[p]

CodePoints(str) == [p \in DOMAIN str |-> Ord(str[p])]

RECURSIVE Pow4(_)
Pow4(n) == IF n = 0 THEN 1 ELSE 4 * Pow4(n - 1)

\* the loop variables (a,c,g,t) of a key (a,c,t,g)
LoopOrder(key) == <<key[1], key[2], key[4], key[3]>>

\* the 4-tuples of non-negative integers that sum to n, for each n
CompositionKeys ==
    [n \in 0..MaxK |->
       {q \in (0..n) \X (0..n) \X (0..n) \X (0..n) : q[1] + q[2] + q[3] + q[4] = n}]

\* C(n+3, 3)
Compositions(n) == ((n + 1) * (n + 2) * (n + 3)) \div 6

\* number of occurrences of ch in the window of length kk at offset i
InWindow(seq, i, kk, ch) == Cardinality({p \in (i + 1)..(i + kk) : seq[p] = ch})

AACGT == <<"A", "A", "C", "G", "T">>
ACGT == <<"A", "C", "G", "T">>
AAAA == <<"A", "A", "A", "A">>
ANAC == <<"A", "N", "A", "C">>

----------------------------------------------------------------------------
(* C1: after fit with k >= 1, the raw-mode row of a sequence over {A,C,G,T} *)
(* of length L sums to L - k when L >= k and is all zero when L < k, in     *)
(* exact and in grouped mode, and transform raises nothing.                 *)
C1_RawSum ==
    (Transformed /\ k >= 1 /\ ~normalize /\ \A r \in DOMAIN X : OnlyBases(X[r]))
    => /\ raised = "none"
       /\ Len(X_trans) = Len(X)
       /\ \A r \in DOMAIN X :
            /\ Len(X[r]) >= k => RowSum(X_trans[r]) = Len(X[r]) - k
            /\ Len(X[r]) < k => \A key \in DOMAIN X_trans[r] : X_trans[r][key] = 0

C1_Witness ==
    /\ Transformed /\ cls = "KGroup" /\ k = 2 /\ ~normalize
    /\ X = <<AAAA, <<"A", "C">> >>
    /\ raised = "none"
    /\ RowSum(X_trans[1]) = 2
    /\ RowSum(X_trans[2]) = 0

(* C2: for k >= 1 the vocabulary KMerTransformer.fit stores holds every     *)
(* length-k string over {A,C,G,T} exactly once (4^k entries) in ascending   *)
(* lexicographic order (each entry before the next).                        *)
C2_ExactVocabulary ==
    (cls = "KMer" /\ fitted /\ k >= 1)
    => /\ Len(kmer_perms) = Pow4(k)
       /\ ToSet(kmer_perms) = [1..k -> Alphabet]
       /\ \A i \in 1..(Len(kmer_perms) - 1) :
            LexBefore(CodePoints(kmer_perms[i]), CodePoints(kmer_perms[i + 1]))

C2_Witness ==
    /\ cls = "KMer" /\ fitted /\ k = 2
    /\ Len(kmer_perms) = 16
    /\ kmer_perms[1] = <<"A", "A">>
    /\ kmer_perms[2] = <<"A", "C">>
    /\ kmer_perms[16] = <<"T", "T">>

(* C3: for k >= 1 the vocabulary KGroupKMerTransformer.fit stores has       *)
(* C(k+3,3) entries, no duplicates, every key a 4-tuple of non-negative     *)
(* integers summing to k, in the order of the nested ascending loops over   *)
(* a, c, g, t with each key stored as (a,c,t,g): consecutive keys ascend in *)
(* the lexicographic order of (a,c,g,t).                                    *)
C3_GroupedVocabulary ==
    (cls = "KGroup" /\ fitted /\ k >= 1)
    => /\ Len(kmer_perms) = Compositions(k)
       /\ Cardinality(ToSet(kmer_perms)) = Len(kmer_perms)
       /\ \A i \in DOMAIN kmer_perms :
            /\ Len(kmer_perms[i]) = 4
            /\ \A p \in 1..4 : kmer_perms[i][p] >= 0
            /\ kmer_perms[i][1] + kmer_perms[i][2] + kmer_perms[i][3]
                 + kmer_perms[i][4] = k
       /\ \A i \in 1..(Len(kmer_perms) - 1) :
            LexBefore(LoopOrder(kmer_perms[i]), LoopOrder(kmer_perms[i + 1]))

C3_Witness ==
    /\ cls = "KGroup" /\ fitted /\ k = 2
    /\ Len(kmer_perms) = 10
    /\ kmer_perms[1] = <<0, 0, 2, 0>>
    /\ kmer_perms[2] = <<0, 0, 1, 1>>
    /\ kmer_perms[3] = <<0, 0, 0, 2>>
    /\ kmer_perms[10] = <<2, 0, 0, 0>>

(* C4: KGroupColumnPruner.transform(T) after fit on T returns a table      *)
(* whose columns are among T's (no more of them), each retained column has  *)
(* a strictly positive value in some row of T, and every column of T that   *)
(* is zero in all rows is dropped.                                          *)
PrunedOf(T, out, exc) ==
    /\ exc = "none"
    /\ ToSet(out.columns) \subseteq ToSet(T.columns)
    /\ Len(out.columns) <= Len(T.columns)
    /\ \A c \in ToSet(out.columns) : \E r \in DOMAIN T.rows : T.rows[r][c] > 0
    /\ \A c \in ToSet(T.columns) :
         (\A r \in DOMAIN T.rows : T.rows[r][c] = 0) => c \notin ToSet(out.columns)

C4_PrunedColumns ==
    [][ (\/ last = "fit" /\ last' = "transform" /\ X' = X
         \/ last' = "fit_transform")
        => PrunedOf(X', X_trans', raised') ]_vars

C4_Witness ==
    /\ last = "transform" /\ raised = "none"
    /\ X.columns = <<"AA", "TT">> /\ Len(X.rows) = 2
    /\ X.rows[1]["AA"] = 0 /\ X.rows[2]["AA"] = 1
    /\ X.rows[1]["TT"] = 0 /\ X.rows[2]["TT"] = 0
    /\ columns_to_keep = <<"AA">>
    /\ X_trans.columns = <<"AA">>

(* C5: for k <= 0 neither transformer completes fit with a stored           *)
(* vocabulary: fit signals an error.                                        *)
C5_InvalidKRejected ==
    k <= 0 => /\ ~fitted
              /\ last \in {"fit", "fit_transform"} => raised # "none"

(* C6: for k = 1 and "AACGT" the exact-mode raw counts are A=2, C=1, G=1,   *)
(* T=1, with len - k = 4 windows and counts summing to 4.                   *)
C6_Original ==
    (Transformed /\ cls = "KMer" /\ k = 1 /\ ~normalize /\ X = <<AACGT>>)
    => /\ raised = "none"
       /\ X_trans[1][<<"A">>] = 2 /\ X_trans[1][<<"C">>] = 1
       /\ X_trans[1][<<"G">>] = 1 /\ X_trans[1][<<"T">>] = 1
       /\ Len(X[1]) - k = 4
       /\ RowSum(X_trans[1]) = 4

(* C6 as amended: the counts are A=2, C=1, G=1, T=0 (the last window, "T",  *)
(* is not counted), with len - k = 4 windows and counts summing to 4.       *)
C6_Amended ==
    (Transformed /\ cls = "KMer" /\ k = 1 /\ ~normalize /\ X = <<AACGT>>)
    => /\ raised = "none"
       /\ X_trans[1][<<"A">>] = 2 /\ X_trans[1][<<"C">>] = 1
       /\ X_trans[1][<<"G">>] = 1 /\ X_trans[1][<<"T">>] = 0
       /\ Len(X[1]) - k = 4
       /\ RowSum(X_trans[1]) = 4

C6_Witness ==
    /\ Transformed /\ cls = "KMer" /\ k = 1 /\ ~normalize /\ X = <<AACGT>>
    /\ raised = "none"
    /\ X_trans[1][<<"T">>] = 0
    /\ RowSum(X_trans[1]) = 4

(* C7: in grouped raw mode with k >= 1 and sequences over {A,C,G,T}, the    *)
(* value of each bucket (a,c,t,g) is the number of start offsets in         *)
(* 0..L-k-1 whose window holds a A's, c C's, t T's and g G's.               *)
C7_GroupedBuckets ==
    (Transformed /\ cls = "KGroup" /\ k >= 1 /\ ~normalize
       /\ \A r \in DOMAIN X : OnlyBases(X[r]))
    => /\ raised = "none"
       /\ Len(X_trans) = Len(X)
       /\ \A r \in DOMAIN X :
            /\ DOMAIN X_trans[r] = CompositionKeys[k]
            /\ \A key \in DOMAIN X_trans[r] :
                 X_trans[r][key] =
                   Cardinality({i \in Offsets(X[r], k) :
                                  /\ InWindow(X[r], i, k, "A") = key[1]
                                  /\ InWindow(X[r], i, k, "C") = key[2]
                                  /\ InWindow(X[r], i, k, "T") = key[3]
                                  /\ InWindow(X[r], i, k, "G") = key[4]})

C7_Witness ==
    /\ Transformed /\ cls = "KGroup" /\ k = 2 /\ ~normalize /\ X = <<ACGT>>
    /\ raised = "none"
    /\ X_trans[1][<<1, 1, 0, 0>>] = 1
    /\ X_trans[1][<<0, 1, 0, 1>>] = 1
    /\ X_trans[1][<<0, 1, 1, 0>>] = 0
    /\ RowSum(X_trans[1]) = 2

(* C8: in grouped mode a counted window that holds a character outside      *)
(* {A,C,G,T} raises no error and transform still returns its rows.          *)
C8_Original ==
    (Transformed /\ cls = "KGroup" /\ k >= 1 /\ BadCounted(X, k))
    => /\ raised = "none"
       /\ Len(X_trans) = Len(X)

(* C8 as amended: in grouped mode with k >= 1, transform raises KeyError    *)
(* and returns no table exactly when a counted window of some row holds a   *)
(* character outside {A,C,G,T}; such a character in windows that are not    *)
(* counted raises nothing.                                                  *)
C8_GroupedKeyError ==
    (Transformed /\ cls = "KGroup" /\ k >= 1)
    => IF BadCounted(X, k)
       THEN raised = "KeyError" /\ X_trans = <<>>
       ELSE raised = "none" /\ Len(X_trans) = Len(X)

C8_Witness ==
    /\ Transformed /\ cls = "KGroup" /\ k = 2
    /\ X = <<ACGT, ANAC>>
    /\ raised = "KeyError"
    /\ X_trans = <<>>

(* C9: in exact mode with k >= 1, transform raises KeyError and returns no  *)
(* table exactly when a counted window of some row holds a character        *)
(* outside {A,C,G,T}; otherwise it returns one row per sequence whose keys  *)
(* are exactly the vocabulary.                                              *)
C9_ExactKeyError ==
    (Transformed /\ cls = "KMer" /\ k >= 1)
    => IF BadCounted(X, k)
       THEN raised = "KeyError" /\ X_trans = <<>>
       ELSE /\ raised = "none"
            /\ Len(X_trans) = Len(X)
            /\ \A r \in DOMAIN X : DOMAIN X_trans[r] = ToSet(kmer_perms)

C9_Witness ==
    /\ Transformed /\ cls = "KMer" /\ k = 2
    /\ X = <<AAAA, ANAC>>
    /\ raised = "KeyError"
    /\ X_trans = <<>>

\* the converse case of C9: the only character that is no base is the last one
C9_WitnessUncounted ==
    /\ Transformed /\ cls = "KMer" /\ k = 1
    /\ X = << <<"A", "C", "N">> >>
    /\ raised = "none"
    /\ RowSum(X_trans[1]) = IF normalize THEN 0 ELSE 2

====
